---- MODULE Spec2Model ----
(***************************************************************************)
(* Chunking engine of portal_analysis: RagProcessor.create_chunks and the  *)
(* helpers it calls (src/rag_processor.py), and the constructor of         *)
(* GK8RagProcessor (src/gk8_rag_processor.py).                             *)
(*                                                                         *)
(* Text is a sequence of atoms.  An atom is either one character (" ",     *)
(* "\n", "bq" for a backquote, "#", "}", a letter ...) or a bulk atom      *)
(* "S", "M", "H" that stands for a long run of characters holding no       *)
(* whitespace and no backquote; LenOf gives the number of characters of    *)
(* an atom.  A fence is three consecutive "bq" atoms.  estimate_tokens is  *)
(* the character-ratio estimator of the source (the branch taken when      *)
(* tiktoken is not installed).                                             *)
(***************************************************************************)
EXTENDS Integers, Sequences, FiniteSets, TLC

VARIABLES pc, cfg, debug, soup, sections, groups, gi, chunks, cur, vi,
          verdicts, validated, console, ret, metadata, heap, written,
          base_url, page, authenticated, visited_urls, content_data,
          start_urls, url_queue, queued_urls, fetched, appended, page_hrefs

\* the state of the crawler: the fields of the processor that crawl_all and
\* crawl_page use, the locals of crawl_all, and three records of what
\* happened: the URLs handed to the page fetcher, the URLs appended to the
\* queue after seeding, and the hrefs of every page fetched with success
crawlVars == <<base_url, page, authenticated, visited_urls, content_data,
               start_urls, url_queue, queued_urls, fetched, appended,
               page_hrefs>>

\* the state of the chunking engine
chunkVars == <<cfg, debug, soup, sections, groups, gi, chunks, cur, vi,
               verdicts, validated, console, ret, metadata, heap, written>>

vars == <<pc, cfg, debug, soup, sections, groups, gi, chunks, cur, vi,
          verdicts, validated, console, ret, metadata, heap, written,
          base_url, page, authenticated, visited_urls, content_data,
          start_urls, url_queue, queued_urls, fetched, appended, page_hrefs>>

----------------------------------------------------------------------------
(* Bounds of the input domain *)

\* largest number of headings in a document
MaxSections == 2
\* characters of the bulk atom "S" (about 100 tokens)
SmallLen == 375
\* characters of the bulk atom "M" (about 600 tokens)
MediumLen == 2250
\* characters of the bulk atom "H" (about 1300 tokens)
HugeLen == 4875
\* largest small CHUNK_OVERLAP handed to _get_overlap_content on its own
MaxOverlap == 6
\* largest number of atoms of a buffer text handed to it
MaxTextLen == 4

----------------------------------------------------------------------------
(* Program constants *)

CHUNK_SIZE_MIN == 500
CHUNK_SIZE_TARGET == 800
CHUNK_SIZE_MAX == 1200
CHUNK_OVERLAP == 150

GK8_CHUNK_SIZE_MIN == 300
GK8_CHUNK_SIZE_MAX == 1500
GK8_CHUNK_OVERLAP == 100
GK8_DEFAULT_TARGET == 1000

\* RagProcessor.__init__: the chunk_size_target argument is not used
RagConfig ==
    [min |-> CHUNK_SIZE_MIN, target |-> CHUNK_SIZE_TARGET,
     max |-> CHUNK_SIZE_MAX, overlap |-> CHUNK_OVERLAP]

\* GK8RagProcessor.__init__: TARGET is the caller's chunk_size_target
GK8Config(chunk_size_target) ==
    [min |-> GK8_CHUNK_SIZE_MIN, target |-> chunk_size_target,
     max |-> GK8_CHUNK_SIZE_MAX, overlap |-> GK8_CHUNK_OVERLAP]

NoConfig == [min |-> 0, target |-> 0, max |-> 0, overlap |-> 0]

----------------------------------------------------------------------------
(* Text *)

WS == {" ", "\n"}
\* one backquote character
BT == "bq"
FENCE == <<BT, BT, BT>>
NN == <<"\n", "\n">>
ContentTitle == <<"C", "o", "n", "t", "e", "n", "t">>
ContinuedSuffix == <<" ", "(", "c", "o", "n", "t", "i", "n", "u", "e", "d", ")">>

LenOf(a) ==
    CASE a = "S" -> SmallLen
      [] a = "M" -> MediumLen
      [] a = "H" -> HugeLen
      [] OTHER -> 1

RECURSIVE LenUpTo(_, _)
LenUpTo(t, n) == IF n = 0 THEN 0 ELSE LenOf(t[n]) + LenUpTo(t, n - 1)

\* len(text)
TextLen(t) == LenUpTo(t, Len(t))

\* int(len(text) / 3.75)
estimate_tokens(t) == (TextLen(t) * 4) \div 15

\* first position >= i that does not hold a whitespace atom (Len(t)+1 if none)
RECURSIVE SkipWS(_, _)
SkipWS(t, i) == IF i > Len(t) \/ t[i] \notin WS THEN i ELSE SkipWS(t, i + 1)

\* last position <= j that does not hold a whitespace atom (0 if none)
RECURSIVE SkipWSBack(_, _)
SkipWSBack(t, j) == IF j < 1 \/ t[j] \notin WS THEN j ELSE SkipWSBack(t, j - 1)

\* str.strip()
Strip(t) == SubSeq(t, SkipWS(t, 1), SkipWSBack(t, Len(t)))

FenceAt(t, i) == i + 2 <= Len(t) /\ t[i] = BT /\ t[i + 1] = BT /\ t[i + 2] = BT

\* position of the first fence at or after i (0 if none)
RECURSIVE FindFence(_, _)
FindFence(t, i) ==
    IF i + 2 > Len(t) THEN 0
    ELSE IF FenceAt(t, i) THEN i ELSE FindFence(t, i + 1)

\* FENCE in text
HasFence(t) == FindFence(t, 1) # 0

\* text.split(FENCE)
RECURSIVE SplitFence(_)
SplitFence(t) ==
    LET k == FindFence(t, 1) IN
    IF k = 0 THEN <<t>>
    ELSE <<SubSeq(t, 1, k - 1)>> \o SplitFence(SubSeq(t, k + 3, Len(t)))

\* text.count(FENCE)
CountFence(t) == Len(SplitFence(t)) - 1

\* text.startswith(p)
StartsWith(t, p) == Len(t) >= Len(p) /\ SubSeq(t, 1, Len(p)) = p

\* first position >= i that holds a whitespace atom (Len(t)+1 if none)
RECURSIVE SkipWord(_, _)
SkipWord(t, i) == IF i > Len(t) \/ t[i] \in WS THEN i ELSE SkipWord(t, i + 1)

\* text.split(): the whitespace-delimited words from position i on
RECURSIVE WordsFrom(_, _)
WordsFrom(t, i) ==
    LET b == SkipWS(t, i) IN
    IF b > Len(t) THEN <<>>
    ELSE LET e == SkipWord(t, b) IN <<SubSeq(t, b, e - 1)>> \o WordsFrom(t, e)

Words(t) == WordsFrom(t, 1)

\* ' '.join(words)
RECURSIVE JoinSpace(_)
JoinSpace(ws) ==
    IF Len(ws) = 0 THEN <<>>
    ELSE IF Len(ws) = 1 THEN ws[1]
    ELSE ws[1] \o <<" ">> \o JoinSpace(Tail(ws))

\* text is found in whole, contiguously, inside big
Contains(big, t) ==
    \E i \in 1..(Len(big) - Len(t) + 1) : SubSeq(big, i, i + Len(t) - 1) = t

----------------------------------------------------------------------------
(* Section Extractor: RagProcessor.extract_sections                        *)
(* The document is a sequence of sibling nodes; a node is a heading        *)
(* (kind "h", level 1..6, its text) or another element (kind "e").         *)

HNode(l, t) == [kind |-> "h", level |-> l, text |-> t]
ENode(t) == [kind |-> "e", level |-> 0, text |-> t]

\* '\n'.join(pieces)
RECURSIVE JoinNL(_)
JoinNL(ps) ==
    IF Len(ps) = 0 THEN <<>>
    ELSE IF Len(ps) = 1 THEN ps[1]
    ELSE ps[1] \o <<"\n">> \o JoinNL(Tail(ps))

\* the stripped, non-empty strings of nodes[i..j], in order
RECURSIVE Pieces(_, _, _)
Pieces(nodes, i, j) ==
    IF i > j THEN <<>>
    ELSE LET p == Strip(nodes[i].text) IN
         (IF Len(p) = 0 THEN <<>> ELSE <<p>>) \o Pieces(nodes, i + 1, j)

\* get_text(separator='\n', strip=True) over nodes[i..j]
GetText(nodes, i, j) == JoinNL(Pieces(nodes, i, j))

\* last sibling of the content of the heading at position h: the walk stops
\* at the first following heading whose level is <= level
RECURSIVE ContentEnd(_, _, _)
ContentEnd(nodes, h, level) ==
    IF h + 1 > Len(nodes) THEN h
    ELSE IF nodes[h + 1].kind = "h" /\ nodes[h + 1].level <= level THEN h
    ELSE ContentEnd(nodes, h + 1, level)

\* the sections of the headings at positions >= i
RECURSIVE SectionsFrom(_, _)
SectionsFrom(nodes, i) ==
    IF i > Len(nodes) THEN <<>>
    ELSE IF nodes[i].kind # "h" THEN SectionsFrom(nodes, i + 1)
    ELSE LET level == nodes[i].level
             title == Strip(nodes[i].text)
             content == GetText(nodes, i, ContentEnd(nodes, i, level))
         IN (IF Len(content) > 0
             THEN <<[level |-> level, title |-> title, content |-> content]>>
             ELSE <<>>) \o SectionsFrom(nodes, i + 1)

extract_sections(nodes) ==
    IF \A i \in 1..Len(nodes) : nodes[i].kind # "h"
    THEN LET content == GetText(nodes, 1, Len(nodes)) IN
         IF Len(content) > 0
         THEN <<[level |-> 0, title |-> ContentTitle, content |-> content]>>
         ELSE <<>>
    ELSE SectionsFrom(nodes, 1)

----------------------------------------------------------------------------
(* Section Grouper *)

\* _is_major_boundary without the level test
_is_major_boundary_fence_only(current_section, previous_section) ==
    /\ Len(previous_section) > 0
    /\ HasFence(previous_section[1].content) # HasFence(current_section.content)

\* _is_major_boundary without the content-type test
_is_major_boundary_level_only(current_section, previous_section) ==
    current_section.level <= 2

\* previous_section is <<>> for None, else <<section>>
_is_major_boundary(current_section, previous_section) ==
    IF current_section.level <= 2 THEN TRUE
    ELSE IF Len(previous_section) > 0
            /\ HasFence(previous_section[1].content) # HasFence(current_section.content)
         THEN TRUE
         ELSE FALSE

\* the loop of _group_related_sections from section i on, with the groups
\* closed so far and the open current_group
RECURSIVE GroupLoop(_, _, _, _)
GroupLoop(secs, i, gs, current_group) ==
    IF i > Len(secs)
    THEN IF Len(current_group) > 0 THEN Append(gs, current_group) ELSE gs
    ELSE IF _is_major_boundary(secs[i], IF i > 1 THEN <<secs[i - 1]>> ELSE <<>>)
         THEN GroupLoop(secs, i + 1,
                        IF Len(current_group) > 0 THEN Append(gs, current_group) ELSE gs,
                        <<secs[i]>>)
         ELSE GroupLoop(secs, i + 1, gs, Append(current_group, secs[i]))

\* _group_related_sections without the append of the last open group
_group_related_sections_no_final_append(secs) ==
    LET gs == GroupLoop(secs, 1, <<>>, <<>>) IN SubSeq(gs, 1, Len(gs) - 1)

_group_related_sections(secs) == GroupLoop(secs, 1, <<>>, <<>>)

----------------------------------------------------------------------------
(* Group Sizer *)

Hdr(title) == <<"#", " ">> \o title

\* "\n\n# {title}\n\n{content}", or "\n\n{content}" under the title 'Content'
Rendered(section) ==
    IF section.title # ContentTitle
    THEN NN \o Hdr(section.title) \o NN \o section.content
    ELSE NN \o section.content

RECURSIVE RenderAll(_)
RenderAll(secs) ==
    IF Len(secs) = 0 THEN <<>> ELSE Rendered(Head(secs)) \o RenderAll(Tail(secs))

Titles(secs) == [i \in 1..Len(secs) |-> secs[i].title]

Chunk(content, titles, tokens) ==
    [content |-> content, sections |-> titles, token_count |-> tokens]

EmptyChunk == Chunk(<<>>, <<>>, 0)

_create_chunk_from_sections(secs) ==
    LET content == RenderAll(secs) IN
    Chunk(Strip(content), Titles(secs), estimate_tokens(content))

RECURSIVE SumTokens(_)
SumTokens(secs) ==
    IF Len(secs) = 0 THEN 0
    ELSE estimate_tokens(Head(secs).content) + SumTokens(Tail(secs))

----------------------------------------------------------------------------
(* Overlap Linker *)

\* the last n elements of a sequence; Python's words[-n:], which is the whole
\* list when n = 0
LastN(ws, n) == IF n = 0 THEN ws ELSE SubSeq(ws, Len(ws) - n + 1, Len(ws))

_get_overlap_content(c, content) ==
    LET words == Words(content)
        overlap_words == (c.overlap * 4) \div 5
    IN IF Len(words) > overlap_words
       THEN JoinSpace(LastN(words, overlap_words))
       ELSE content

----------------------------------------------------------------------------
(* Splitter: RagProcessor._split_large_group                               *)
(* The running state is the list of chunks emitted so far and the buffer   *)
(* current_chunk_content / current_chunk_sections / current_tokens.        *)

SplitInit == [chunks |-> <<>>, content |-> <<>>, secs |-> <<>>, tokens |-> 0]

\* chunks.append({content.strip(), sections, token_count})
Emit(st) == Append(st.chunks, Chunk(Strip(st.content), st.secs, st.tokens))

\* the buffer reset of lines 717-719
Cleared(st) == [chunks |-> Emit(st), content |-> <<>>, secs |-> <<>>, tokens |-> 0]

\* lines 710-719: the buffer is saved before a code section only if it is
\* non-empty and holds at least MIN tokens
SaveBeforeCode(c, st) ==
    IF Len(st.content) > 0 /\ st.tokens >= c.min THEN Cleared(st) ELSE st

\* lines 721-731: the buffer is set to the header and the text before the
\* first fence
SeedCode(st, section, text_before) ==
    LET content == IF section.title # ContentTitle
                   THEN Hdr(section.title) \o NN \o text_before
                   ELSE text_before
    IN [chunks |-> st.chunks, content |-> content, secs |-> <<section.title>>,
        tokens |-> estimate_tokens(content)]

\* AddCodeBlock leaving out a block that cannot fit under MAX on its own
AddCodeBlock_skip_oversized(c, st, section, body) ==
    LET code_block == FENCE \o body \o FENCE
        code_tokens == estimate_tokens(code_block)
    IN IF code_tokens > c.max THEN st
       ELSE IF st.tokens + code_tokens > c.max
       THEN LET content == Hdr(section.title) \o ContinuedSuffix \o NN \o code_block IN
            [chunks |-> IF Len(Strip(st.content)) > 0 THEN Emit(st) ELSE st.chunks,
             content |-> content, secs |-> <<section.title>>,
             tokens |-> estimate_tokens(content)]
       ELSE [chunks |-> st.chunks, content |-> st.content \o NN \o code_block,
             secs |-> st.secs, tokens |-> st.tokens + code_tokens]

\* lines 736-754: one fenced block
AddCodeBlock(c, st, section, body) ==
    LET code_block == FENCE \o body \o FENCE
        code_tokens == estimate_tokens(code_block)
    IN IF st.tokens + code_tokens > c.max
       THEN LET content == Hdr(section.title) \o ContinuedSuffix \o NN \o code_block IN
            [chunks |-> IF Len(Strip(st.content)) > 0 THEN Emit(st) ELSE st.chunks,
             content |-> content, secs |-> <<section.title>>,
             tokens |-> estimate_tokens(content)]
       ELSE [chunks |-> st.chunks, content |-> st.content \o NN \o code_block,
             secs |-> st.secs, tokens |-> st.tokens + code_tokens]

\* lines 756-762: the text after a fenced block
AddTextAfter(c, st, text_after) ==
    LET text_tokens == estimate_tokens(text_after) IN
    IF st.tokens + text_tokens <= c.max
    THEN [chunks |-> st.chunks, content |-> st.content \o NN \o text_after,
          secs |-> st.secs, tokens |-> st.tokens + text_tokens]
    ELSE st

\* range(1, len(section_parts), 2): the number of fenced blocks
NBlocks(parts) == Len(parts) \div 2

\* lines 736-762: the n-th fenced block, parts[2n], and the text after it
OneBlock(c, st, section, parts, n) ==
    LET st1 == AddCodeBlock(c, st, section, parts[2 * n]) IN
    IF 2 * n + 1 <= Len(parts) THEN AddTextAfter(c, st1, parts[2 * n + 1]) ELSE st1

\* lines 734-762: the running state after the first n fenced blocks
RECURSIVE BlockState(_, _, _, _, _)
BlockState(c, st, section, parts, n) ==
    IF n = 0 THEN st
    ELSE OneBlock(c, BlockState(c, st, section, parts, n - 1), section, parts, n)

\* lines 709-731: the state the loop over the blocks starts from
CodeStart(c, st, section) ==
    SeedCode(SaveBeforeCode(c, st), section, SplitFence(section.content)[1])

\* lines 709-762
SplitCodeSection(c, st, section) ==
    LET parts == SplitFence(section.content) IN
    BlockState(c, CodeStart(c, st, section), section, parts, NBlocks(parts))

\* lines 784-790 and 792-798
AppendSection(st, section, section_tokens) ==
    [chunks |-> st.chunks, content |-> st.content \o Rendered(section),
     secs |-> Append(st.secs, section.title), tokens |-> st.tokens + section_tokens]

\* lines 770-782
FlushWithOverlap(c, st, section) ==
    LET content == _get_overlap_content(c, st.content) \o Rendered(section) IN
    [chunks |-> Emit(st), content |-> content, secs |-> <<section.title>>,
     tokens |-> estimate_tokens(content)]

\* SplitTextSection flushing past TARGET whatever the buffer holds
SplitTextSection_no_min_test(c, st, section) ==
    LET section_tokens == estimate_tokens(section.content) IN
    IF st.tokens + section_tokens > c.target
    THEN FlushWithOverlap(c, st, section)
    ELSE AppendSection(st, section, section_tokens)

\* lines 763-798
SplitTextSection(c, st, section) ==
    LET section_tokens == estimate_tokens(section.content) IN
    IF st.tokens + section_tokens > c.target
    THEN IF st.tokens >= c.min
         THEN FlushWithOverlap(c, st, section)
         ELSE AppendSection(st, section, section_tokens)
    ELSE AppendSection(st, section, section_tokens)

\* one iteration of the loop over the sections of the group
SplitSection(c, st, section) ==
    IF HasFence(section.content)
    THEN SplitCodeSection(c, st, section)
    ELSE SplitTextSection(c, st, section)

\* the running state after the first k sections of the group
RECURSIVE SplitState(_, _, _)
SplitState(c, group, k) ==
    IF k = 0 THEN SplitInit
    ELSE SplitSection(c, SplitState(c, group, k - 1), group[k])

\* lines 800-808
FinalFlush(st) == IF Len(Strip(st.content)) > 0 THEN Emit(st) ELSE st.chunks

_split_large_group(c, group) == FinalFlush(SplitState(c, group, Len(group)))

\* create_chunks emitting nothing for a group below MIN
GroupChunks_drop_undersized(c, group) ==
    LET group_tokens == SumTokens(group) IN
    IF c.min <= group_tokens /\ group_tokens <= c.max
    THEN <<_create_chunk_from_sections(group)>>
    ELSE IF group_tokens > c.max
         THEN _split_large_group(c, group)
         ELSE <<>>

\* create_chunks, lines 587-598: the candidate chunks of one group
GroupChunks(c, group) ==
    LET group_tokens == SumTokens(group) IN
    IF c.min <= group_tokens /\ group_tokens <= c.max
    THEN <<_create_chunk_from_sections(group)>>
    ELSE IF group_tokens > c.max
         THEN _split_large_group(c, group)
         ELSE <<_create_chunk_from_sections(group)>>

----------------------------------------------------------------------------
(* Chunk Validator *)

orphaned_starts ==
    << <<"e", "l", "s", "e", ":">>, <<"e", "l", "i", "f", ":">>, <<"}">>, <<"]">>,
       <<")">>, <<"e", "x", "c", "e", "p", "t", ":">>,
       <<"f", "i", "n", "a", "l", "l", "y", ":">>, <<"c", "a", "t", "c", "h">> >>

\* _validate_chunk applying the fence-balance and orphaned-start checks
\* before the size rules
_validate_chunk_checks_first(c, content, tokens, total_chunks) ==
    IF CountFence(content) % 2 # 0 THEN <<FALSE, "incomplete code block">>
    ELSE IF \E k \in 1..Len(orphaned_starts) :
                StartsWith(Strip(content), orphaned_starts[k])
         THEN <<FALSE, "orphaned code">>
    ELSE IF tokens < c.min
    THEN IF total_chunks = 1 THEN <<TRUE, "single chunk">>
         ELSE IF HasFence(content) THEN <<TRUE, "important content">>
         ELSE <<FALSE, "too small">>
    ELSE IF tokens > c.max THEN <<FALSE, "too large">>
    ELSE <<TRUE, "valid">>

\* _validate_chunk without the upper size check
_validate_chunk_no_max(c, content, tokens, total_chunks) ==
    IF tokens < c.min
    THEN IF total_chunks = 1 THEN <<TRUE, "single chunk">>
         ELSE IF HasFence(content) THEN <<TRUE, "important content">>
         ELSE <<FALSE, "too small">>
    ELSE IF CountFence(content) % 2 # 0 THEN <<FALSE, "incomplete code block">>
    ELSE IF \E k \in 1..Len(orphaned_starts) :
                StartsWith(Strip(content), orphaned_starts[k])
         THEN <<FALSE, "orphaned code">>
    ELSE <<TRUE, "valid">>

\* _validate_chunk without the fence exception for undersized chunks
_validate_chunk_no_fence_exception(c, content, tokens, total_chunks) ==
    IF tokens < c.min
    THEN IF total_chunks = 1 THEN <<TRUE, "single chunk">>
         ELSE <<FALSE, "too small">>
    ELSE IF tokens > c.max THEN <<FALSE, "too large">>
    ELSE IF CountFence(content) % 2 # 0 THEN <<FALSE, "incomplete code block">>
    ELSE IF \E k \in 1..Len(orphaned_starts) :
                StartsWith(Strip(content), orphaned_starts[k])
         THEN <<FALSE, "orphaned code">>
    ELSE <<TRUE, "valid">>

\* the (is_valid, reason) pair returned for a chunk whose metadata says
\* total_chunks
_validate_chunk(c, content, tokens, total_chunks) ==
    IF tokens < c.min
    THEN IF total_chunks = 1 THEN <<TRUE, "single chunk">>
         ELSE IF HasFence(content) THEN <<TRUE, "important content">>
         ELSE <<FALSE, "too small">>
    ELSE IF tokens > c.max THEN <<FALSE, "too large">>
    ELSE IF CountFence(content) % 2 # 0 THEN <<FALSE, "incomplete code block">>
    ELSE IF \E k \in 1..Len(orphaned_starts) :
                StartsWith(Strip(content), orphaned_starts[k])
         THEN <<FALSE, "orphaned code">>
    ELSE <<TRUE, "valid">>

----------------------------------------------------------------------------
(* Documents handed to create_chunks *)

Levels == {2, 3}
TitleSet == {<<"T">>, ContentTitle}

BodySet ==
    { <<>>,
      <<"S">>,
      <<"M">>,
      <<"H">>,
      FENCE \o <<"S">> \o FENCE,
      <<"S", " ">> \o FENCE \o <<" ", "S">>,
      <<"S", "\n">> \o FENCE \o <<"H">> \o FENCE,
      <<"}", "M", "\n">> \o FENCE \o <<"M">> \o FENCE \o <<"\n", "M">>,
      <<"e", "l", "s", "e", " ", "{", "\n", "M">> }

\* a heading followed by one element holding body (no element for an empty body)
HeadedPart(level, title, body) ==
    <<HNode(level, title)>> \o (IF Len(body) = 0 THEN <<>> ELSE <<ENode(body)>>)

PartSet == { HeadedPart(l, t, b) : l \in Levels, t \in TitleSet, b \in BodySet }

RECURSIVE Flatten(_)
Flatten(ps) == IF Len(ps) = 0 THEN <<>> ELSE Head(ps) \o Flatten(Tail(ps))

\* bodies of several blank-line-separated paragraphs inside one element
ParagraphBodySet ==
    { <<"M", "a">> \o NN \o <<"M", "b">> \o NN \o <<"M", "c">>,
      <<"S", "a">> \o NN \o <<"H", "b">> }

DocSet ==
    { <<ENode(b)>> : b \in BodySet \cup ParagraphBodySet }
    \cup UNION { { Flatten(f) : f \in [1..n -> PartSet] } : n \in 1..MaxSections }

----------------------------------------------------------------------------
(* The crawler's state before any crawl *)

NoCrawl ==
    /\ base_url = ""
    /\ page = FALSE
    /\ authenticated = FALSE
    /\ visited_urls = {}
    /\ content_data = <<>>
    /\ start_urls = <<>>
    /\ url_queue = <<>>
    /\ queued_urls = {}
    /\ fetched = <<>>
    /\ appended = <<>>
    /\ page_hrefs = <<>>

----------------------------------------------------------------------------
(* The metadata dict handed to create_chunks.  A dict is a record of its   *)
(* entries; a list-valued entry holds the identity of a list object, an    *)
(* index into heap, which holds the current items of every list object.    *)

\* no create_chunks call yet
NoMetadata == [page_url |-> "", related_links |-> 0]

\* the dict built by extract_metadata; related_links is a list object
CallerMetadata == [page_url |-> "u", related_links |-> 1]

\* the list objects alive when create_chunks is called
CallerHeap == << <<"a">> >>

----------------------------------------------------------------------------
(* RagProcessor *)

Init ==
    /\ pc = "new"
    /\ cfg = NoConfig
    /\ debug = FALSE
    /\ soup = <<>>
    /\ sections = <<>>
    /\ groups = <<>>
    /\ gi = 0
    /\ chunks = <<>>
    /\ cur = EmptyChunk
    /\ vi = 0
    /\ verdicts = <<>>
    /\ validated = <<>>
    /\ console = <<>>
    /\ ret = <<>>
    /\ metadata = NoMetadata
    /\ heap = <<>>
    /\ written = FALSE
    /\ NoCrawl

\* RagProcessor.__init__
Construct ==
    /\ UNCHANGED crawlVars
    /\ pc = "new"
    /\ pc' = "ready"
    /\ cfg' = RagConfig
    /\ debug' \in BOOLEAN
    /\ UNCHANGED <<metadata, heap, written, soup, sections, groups, gi,
                   chunks, cur, vi, verdicts, validated, console, ret>>

\* create_chunks, lines 577-584
CreateChunksBegin ==
    /\ UNCHANGED crawlVars
    /\ pc = "ready"
    /\ \E nodes \in DocSet :
         /\ soup' = nodes
         /\ sections' = extract_sections(nodes)
         /\ IF Len(sections') = 0
            THEN /\ pc' = "done"
                 /\ groups' = <<>>
                 /\ gi' = 0
            ELSE /\ pc' = "size"
                 /\ groups' = _group_related_sections(sections')
                 /\ gi' = 1
    /\ UNCHANGED <<written, cfg, debug, chunks, cur, vi, verdicts,
                   validated, console, ret>>
    /\ metadata' = CallerMetadata
    /\ heap' = CallerHeap

\* create_chunks, lines 586-598: one iteration of the loop over the groups
SizeGroup ==
    /\ UNCHANGED crawlVars
    /\ pc = "size"
    /\ gi <= Len(groups)
    /\ chunks' = chunks \o GroupChunks(cfg, groups[gi])
    /\ gi' = gi + 1
    /\ IF gi = Len(groups)
       THEN pc' = "validate" /\ vi' = 1
       ELSE pc' = "size" /\ vi' = vi
    /\ UNCHANGED <<metadata, heap, written, cfg, debug, soup, sections,
                   groups, cur, verdicts, validated, console, ret>>

\* lines 604-607: metadata.copy() is a new dict holding the caller's entries
\* (for a list entry, the same list object), then the three keys are set
Metadata(chunk_index, total_chunks, section_titles) ==
    [page_url |-> metadata.page_url, related_links |-> metadata.related_links,
     chunk_index |-> chunk_index, total_chunks |-> total_chunks,
     section_titles |-> section_titles]

Final(chunk, chunk_metadata) ==
    [content |-> Strip(chunk.content), sections |-> chunk.sections,
     token_count |-> chunk.token_count, metadata |-> chunk_metadata]

\* create_chunks, lines 602-616: one iteration of the loop over the chunks
ValidateChunk ==
    /\ UNCHANGED crawlVars
    /\ pc = "validate"
    /\ vi <= Len(chunks)
    /\ LET chunk == Final(chunks[vi],
                          Metadata(vi, Len(chunks), chunks[vi].sections))
           v == _validate_chunk(cfg, chunk.content, chunk.token_count,
                                chunk.metadata.total_chunks)
       IN /\ verdicts' = Append(verdicts, v)
          /\ validated' = IF v[1] THEN Append(validated, chunk) ELSE validated
          /\ console' = IF ~v[1] /\ debug THEN Append(console, <<vi, v[2]>>)
                        ELSE console
    /\ vi' = vi + 1
    /\ UNCHANGED <<metadata, heap, written, pc, cfg, debug, soup, sections,
                   groups, gi, chunks, cur, ret>>

\* the accepted chunks left with their provisional numbers
Reindexed_skipped(vs) == vs

\* the accepted chunks renumbered in reverse order
Reindexed_reversed(vs) ==
    [i \in 1..Len(vs) |->
        [vs[Len(vs) + 1 - i] EXCEPT !.metadata.chunk_index = i,
                                    !.metadata.total_chunks = Len(vs)]]

\* lines 619-621
Reindexed(vs) ==
    [i \in 1..Len(vs) |->
        [vs[i] EXCEPT !.metadata.chunk_index = i, !.metadata.total_chunks = Len(vs)]]

\* create_chunks, lines 618-623
Return ==
    /\ UNCHANGED crawlVars
    /\ pc = "validate"
    /\ vi > Len(chunks)
    /\ validated' = Reindexed(validated)
    /\ ret' = validated'
    /\ pc' = "done"
    /\ UNCHANGED <<metadata, heap, written, cfg, debug, soup, sections,
                   groups, gi, chunks, cur, vi, verdicts, console>>

\* The caller's first write to the returned list (written records that it
\* happened).
\* the caller appends to the related_links list of chunk k's metadata in place
CallerAppendsLink ==
    /\ UNCHANGED crawlVars
    /\ pc = "done"
    /\ ~written
    /\ \E k \in 1..Len(ret) :
         heap' = [heap EXCEPT ![ret[k].metadata.related_links] = Append(@, "x")]
    /\ written' = TRUE
    /\ UNCHANGED <<pc, cfg, debug, soup, sections, groups, gi, chunks, cur,
                   vi, verdicts, validated, console, ret, metadata>>

\* the caller appends to the section_titles list of chunk k's metadata in
\* place; line 607 stored the chunk's own 'sections' list under that key
CallerAppendsTitle ==
    /\ UNCHANGED crawlVars
    /\ pc = "done"
    /\ ~written
    /\ \E k \in 1..Len(ret) :
         ret' = [ret EXCEPT ![k].metadata.section_titles = Append(@, <<"X">>),
                            ![k].sections = Append(@, <<"X">>)]
    /\ written' = TRUE
    /\ UNCHANGED <<pc, cfg, debug, soup, sections, groups, gi, chunks, cur,
                   vi, verdicts, validated, console, metadata, heap>>

\* the caller assigns a new value to an entry of chunk k's metadata
CallerSetsValue ==
    /\ UNCHANGED crawlVars
    /\ pc = "done"
    /\ ~written
    /\ \E k \in 1..Len(ret) :
         ret' = [ret EXCEPT ![k].metadata.page_url = "v"]
    /\ written' = TRUE
    /\ UNCHANGED <<pc, cfg, debug, soup, sections, groups, gi, chunks, cur,
                   vi, verdicts, validated, console, metadata, heap>>

Next ==
    \/ Construct
    \/ CreateChunksBegin
    \/ SizeGroup
    \/ ValidateChunk
    \/ Return
    \/ CallerAppendsLink
    \/ CallerAppendsTitle
    \/ CallerSetsValue

Spec == Init /\ [][Next]_vars

----------------------------------------------------------------------------
(* GK8RagProcessor *)

\* len(text) // 4
gk8_estimate_tokens(t) == TextLen(t) \div 4

\* position of the first "\n\n" at or after i (0 if none)
RECURSIVE FindNN(_, _)
FindNN(t, i) ==
    IF i + 1 > Len(t) THEN 0
    ELSE IF t[i] = "\n" /\ t[i + 1] = "\n" THEN i ELSE FindNN(t, i + 1)

\* text.split('\n\n')
RECURSIVE SplitNN(_)
SplitNN(t) ==
    LET k == FindNN(t, 1) IN
    IF k = 0 THEN <<t>>
    ELSE <<SubSeq(t, 1, k - 1)>> \o SplitNN(SubSeq(t, k + 2, Len(t)))

\* gk8 create_chunks, lines 580-603: the loop over the paragraphs from i on,
\* then the remaining content
RECURSIVE GK8ParaLoop(_, _, _, _, _, _, _)
GK8ParaLoop(c, cs, temp_content, temp_tokens, section, paragraphs, i) ==
    IF i > Len(paragraphs)
    THEN IF Len(Strip(temp_content)) > 0
         THEN Append(cs, Chunk(Strip(temp_content), <<section.title>>, temp_tokens))
         ELSE cs
    ELSE LET para == paragraphs[i]
             para_tokens == gk8_estimate_tokens(para)
         IN IF temp_tokens + para_tokens > c.target
            THEN LET t2 == Hdr(section.title) \o NN \o para \o NN IN
                 GK8ParaLoop(c,
                    IF Len(Strip(temp_content)) > 0
                    THEN Append(cs, Chunk(Strip(temp_content), <<section.title>>,
                                          temp_tokens))
                    ELSE cs,
                    t2, gk8_estimate_tokens(t2), section, paragraphs, i + 1)
            ELSE GK8ParaLoop(c, cs, temp_content \o para \o NN,
                             temp_tokens + para_tokens, section, paragraphs, i + 1)

\* gk8 create_chunks, lines 562-632: one iteration of the loop over the
\* sections; st holds the chunks emitted so far and current_chunk
GK8Section(c, st, section) ==
    LET section_tokens == gk8_estimate_tokens(section.content) IN
    IF section_tokens > c.max
    THEN LET cs == IF Len(st.cur.content) > 0 THEN Append(st.chunks, st.cur)
                   ELSE st.chunks
             keep == IF Len(st.cur.content) > 0 THEN EmptyChunk ELSE st.cur
             temp_content == IF section.title # ContentTitle
                             THEN Hdr(section.title) \o NN ELSE <<>>
         IN [chunks |-> GK8ParaLoop(c, cs, temp_content,
                                    gk8_estimate_tokens(temp_content), section,
                                    SplitNN(section.content), 1),
             cur |-> keep]
    ELSE IF st.cur.token_count + section_tokens > c.target
            /\ st.cur.token_count >= c.min
         THEN LET overlap_content == _get_overlap_content(c, st.cur.content) IN
              [chunks |-> Append(st.chunks, st.cur),
               cur |-> Chunk(overlap_content \o NN \o Hdr(section.title) \o NN
                                \o section.content,
                             <<section.title>>,
                             gk8_estimate_tokens(overlap_content) + section_tokens)]
         ELSE [chunks |-> st.chunks,
               cur |-> Chunk(st.cur.content \o Rendered(section),
                             Append(st.cur.sections, section.title),
                             st.cur.token_count + section_tokens)]

GK8Targets == {200, GK8_DEFAULT_TARGET, 2000}

\* GK8RagProcessor.__init__
GK8Construct ==
    /\ UNCHANGED crawlVars
    /\ pc = "new"
    /\ pc' = "ready"
    /\ \E chunk_size_target \in GK8Targets : cfg' = GK8Config(chunk_size_target)
    /\ debug' \in BOOLEAN
    /\ UNCHANGED <<metadata, heap, written, soup, sections, groups, gi,
                   chunks, cur, vi, verdicts, validated, console, ret>>

\* gk8 create_chunks, lines 549-559
GK8CreateChunksBegin ==
    /\ UNCHANGED crawlVars
    /\ pc = "ready"
    /\ \E nodes \in DocSet :
         /\ soup' = nodes
         /\ sections' = extract_sections(nodes)
         /\ IF Len(sections') = 0
            THEN pc' = "done" /\ gi' = 0
            ELSE pc' = "loop" /\ gi' = 1
    /\ UNCHANGED <<written, cfg, debug, groups, chunks, cur, vi, verdicts,
                   validated, console, ret>>
    /\ metadata' = CallerMetadata
    /\ heap' = CallerHeap

\* gk8 create_chunks, lines 561-632: one iteration of the loop over the sections
GK8SectionStep ==
    /\ UNCHANGED crawlVars
    /\ pc = "loop"
    /\ gi <= Len(sections)
    /\ LET st == GK8Section(cfg, [chunks |-> chunks, cur |-> cur], sections[gi]) IN
         /\ chunks' = st.chunks
         /\ cur' = st.cur
    /\ gi' = gi + 1
    /\ UNCHANGED <<metadata, heap, written, pc, cfg, debug, soup, sections,
                   groups, vi, verdicts, validated, console, ret>>

\* gk8 create_chunks, lines 634-648
GK8Return ==
    /\ UNCHANGED crawlVars
    /\ pc = "loop"
    /\ gi > Len(sections)
    /\ chunks' = IF Len(Strip(cur.content)) > 0 THEN Append(chunks, cur) ELSE chunks
    /\ ret' = [i \in 1..Len(chunks') |->
                 Final(chunks'[i], Metadata(i, Len(chunks'), chunks'[i].sections))]
    /\ pc' = "done"
    /\ UNCHANGED <<metadata, heap, written, cfg, debug, soup, sections,
                   groups, gi, cur, vi, verdicts, validated, console>>

NextGK8 == GK8Construct \/ GK8CreateChunksBegin \/ GK8SectionStep \/ GK8Return

SpecGK8 == Init /\ [][NextGK8]_vars

----------------------------------------------------------------------------
(* _get_overlap_content on its own: CHUNK_OVERLAP and the buffer text are  *)
(* drawn from small sets, the one action applies the function.             *)

\* the values of CHUNK_OVERLAP: the small ones and those of the two classes
OverlapSet == 1..MaxOverlap \cup {CHUNK_OVERLAP, GK8_CHUNK_OVERLAP}

\* the texts of n atoms over two letters and the two whitespace characters
RECURSIVE TextsOfLen(_)
TextsOfLen(n) ==
    IF n = 0 THEN { <<>> }
    ELSE { Append(t, a) : t \in TextsOfLen(n - 1), a \in {"a", "b", " ", "\n"} }

BufferTexts == UNION { TextsOfLen(n) : n \in 0..MaxTextLen }

InitOverlap ==
    /\ pc = "overlap"
    /\ cfg \in { [RagConfig EXCEPT !.overlap = n] : n \in OverlapSet }
    /\ cur \in { Chunk(t, <<>>, estimate_tokens(t)) : t \in BufferTexts }
    /\ debug = FALSE
    /\ soup = <<>>
    /\ sections = <<>>
    /\ groups = <<>>
    /\ gi = 0
    /\ chunks = <<>>
    /\ vi = 0
    /\ verdicts = <<>>
    /\ validated = <<>>
    /\ console = <<>>
    /\ ret = <<>>
    /\ metadata = NoMetadata
    /\ heap = <<>>
    /\ written = FALSE
    /\ NoCrawl

\* overlap_content = self._get_overlap_content(current_chunk_content)
GetOverlapContent ==
    /\ UNCHANGED crawlVars
    /\ pc = "overlap"
    /\ ret' = <<_get_overlap_content(cfg, cur.content)>>
    /\ pc' = "overlapped"
    /\ UNCHANGED <<cfg, debug, soup, sections, groups, gi, chunks, cur, vi,
                   verdicts, validated, console, metadata, heap, written>>

NextOverlap == GetOverlapContent

SpecOverlap == InitOverlap /\ [][NextOverlap]_vars

----------------------------------------------------------------------------
(* Crawler: RagProcessor.crawl_all and crawl_page                          *)
(* A URL is a record: the host ("in" for the documentation site, "out"     *)
(* for another site), the path, whether the path ends with a slash and     *)
(* whether a fragment follows.  A fetched page is the list of its hrefs;   *)
(* what a fetch returns is chosen when the page is fetched.                *)

Url(host, path, slash, frag) ==
    [host |-> host, path |-> path, slash |-> slash, frag |-> frag]

\* normalize_url: the fragment and the trailing slash are removed
normalize_url(url) == [url EXCEPT !.slash = FALSE, !.frag = FALSE]

\* paths matching exclude_patterns
ExcludedPaths == {"print"}

\* should_crawl_url
should_crawl_url(visited, base, url) ==
    LET normalized_url == normalize_url(url) IN
    IF normalized_url \in visited THEN FALSE
    ELSE IF base # "" /\ normalized_url.host # base THEN FALSE
    ELSE IF normalized_url.path \in ExcludedPaths THEN FALSE
    ELSE IF normalized_url.path = "api-v15" THEN TRUE
    ELSE IF normalized_url.path = "api-v14" THEN FALSE
    ELSE TRUE

\* list(dict.fromkeys(links))
RECURSIVE Dedupe(_)
Dedupe(links) ==
    IF Len(links) = 0 THEN <<>>
    ELSE LET rest == Dedupe(SubSeq(links, 1, Len(links) - 1))
             last == links[Len(links)]
         IN IF \E i \in 1..Len(rest) : rest[i] = last THEN rest
            ELSE Append(rest, last)

\* crawl_page, lines 302-321: the links kept from the hrefs of a page
RECURSIVE KeptLinks(_, _, _)
KeptLinks(visited, base, hrefs) ==
    IF Len(hrefs) = 0 THEN <<>>
    ELSE LET normalized_link == normalize_url(Head(hrefs))
             rest == KeptLinks(visited, base, Tail(hrefs))
         IN IF normalized_link.host = base
               /\ should_crawl_url(visited, base, normalized_link)
            THEN <<normalized_link>> \o rest
            ELSE rest

\* visited_urls.add(normalized_url), line 280
MarkVisited_never(visited, normalized_url) == visited

MarkVisited(visited, normalized_url) == visited \cup {normalized_url}

\* the test of line 284
CanFetch_page_only(pg, auth) == pg

CanFetch(pg, auth) == pg /\ auth

\* crawl_page(url).  got is what the fetch yields if it is attempted: <<>>
\* when _crawl_with_playwright returns None or the handling of the page
\* raises (the except branch), <<hrefs>> for a page with these hrefs.  The result
\* holds the new visited_urls and content_data, the links returned and the
\* records of the fetch.
crawl_page(url, got) ==
    LET normalized_url == normalize_url(url)
        same == [visited |-> visited_urls, data |-> content_data, links |-> <<>>,
                 fetched |-> fetched, hrefs |-> page_hrefs]
    IN IF normalized_url \in visited_urls THEN same
       ELSE LET visited == MarkVisited(visited_urls, normalized_url) IN
            IF ~CanFetch(page, authenticated)
            THEN [same EXCEPT !.visited = visited]
            ELSE IF Len(got) = 0
            THEN [same EXCEPT !.visited = visited,
                              !.fetched = Append(fetched, normalized_url)]
            ELSE LET links == Dedupe(KeptLinks(visited, base_url, got[1])) IN
                 [visited |-> visited,
                  data |-> Append(content_data,
                                  [url |-> normalized_url, links |-> links]),
                  links |-> links,
                  fetched |-> Append(fetched, normalized_url),
                  hrefs |-> Append(page_hrefs,
                                   [url |-> normalized_url, hrefs |-> got[1]])]

\* crawl_all, lines 389-395, without the test on queued_urls
RECURSIVE Enqueue_no_queued_test(_, _)
Enqueue_no_queued_test(q, new_links) ==
    IF Len(new_links) = 0 THEN q
    ELSE LET link == Head(new_links) IN
         Enqueue_no_queued_test(
            IF link \notin q.visited
            THEN [q EXCEPT !.queue = Append(@, link), !.queued = @ \cup {link},
                           !.appended = Append(@, link)]
            ELSE q,
            Tail(new_links))

\* crawl_all, lines 389-395: the new links are added to the queue; q holds
\* url_queue, queued_urls, visited_urls and the record of appended URLs
RECURSIVE Enqueue(_, _)
Enqueue(q, new_links) ==
    IF Len(new_links) = 0 THEN q
    ELSE LET link == Head(new_links) IN
         Enqueue(
            IF link \notin q.queued /\ link \notin q.visited
            THEN [q EXCEPT !.queue = Append(@, link), !.queued = @ \cup {link},
                           !.appended = Append(@, link)]
            ELSE q,
            Tail(new_links))

\* the hrefs a page may hold
InA == Url("in", "a", FALSE, FALSE)
InB == Url("in", "b", FALSE, FALSE)
InV15 == Url("in", "api-v15", FALSE, FALSE)

HrefLists ==
    { <<>>,
      <<InB>>,
      <<InB, Url("in", "b", TRUE, FALSE), Url("in", "b", FALSE, TRUE)>>,
      <<Url("in", "a", FALSE, TRUE), InV15>>,
      <<InV15, Url("out", "a", FALSE, FALSE), Url("in", "api-v14", FALSE, FALSE),
        Url("in", "print", FALSE, FALSE)>>,
      <<InA, InB, InV15>> }

\* the start_urls handed to crawl_all
SeedLists ==
    { <<>>,
      <<InA>>,
      <<InA, Url("in", "a", TRUE, FALSE)>>,
      <<Url("in", "b", FALSE, TRUE), InA>>,
      <<Url("out", "a", FALSE, FALSE)>> }

RECURSIVE SeqToSet(_)
SeqToSet(sq) == IF Len(sq) = 0 THEN {} ELSE {Head(sq)} \cup SeqToSet(Tail(sq))

InitCrawl ==
    /\ pc = "crawl_new"
    /\ cfg = NoConfig
    /\ debug = FALSE
    /\ soup = <<>>
    /\ sections = <<>>
    /\ groups = <<>>
    /\ gi = 0
    /\ chunks = <<>>
    /\ cur = EmptyChunk
    /\ vi = 0
    /\ verdicts = <<>>
    /\ validated = <<>>
    /\ console = <<>>
    /\ ret = <<>>
    /\ metadata = NoMetadata
    /\ heap = <<>>
    /\ written = FALSE
    /\ NoCrawl

\* RagProcessor.__init__ with _init_playwright: the browser starts (page is
\* set) or its start fails (page stays None)
CrawlConstruct ==
    /\ pc = "crawl_new"
    /\ pc' = "crawl_ready"
    /\ cfg' = RagConfig
    /\ debug' \in BOOLEAN
    /\ page' \in BOOLEAN
    /\ authenticated' = FALSE
    /\ base_url' = ""
    /\ visited_urls' = {}
    /\ content_data' = <<>>
    /\ UNCHANGED <<soup, sections, groups, gi, chunks, cur, vi, verdicts,
                   validated, console, ret, metadata, heap, written,
                   start_urls, url_queue, queued_urls, fetched, appended,
                   page_hrefs>>

\* crawl_all, lines 346-361: the base URL, _authenticate (it succeeds or
\* fails), the seeding of the queue
CrawlAllBegin ==
    /\ pc = "crawl_ready"
    /\ \E urls \in SeedLists :
         /\ start_urls' = urls
         /\ IF base_url = "" /\ Len(urls) > 0
            THEN /\ base_url' = urls[1].host
                 /\ IF page /\ ~authenticated
                    THEN authenticated' \in BOOLEAN
                    ELSE authenticated' = authenticated
            ELSE UNCHANGED <<base_url, authenticated>>
         /\ LET normalized_starts == [i \in 1..Len(urls) |-> normalize_url(urls[i])]
            IN /\ url_queue' = normalized_starts
               /\ queued_urls' = SeqToSet(normalized_starts)
    /\ pc' = "crawl_loop"
    /\ UNCHANGED chunkVars
    /\ UNCHANGED <<page, visited_urls, content_data, fetched, appended, page_hrefs>>

\* crawl_all, lines 375-395: one iteration of the loop over the queue
CrawlStep ==
    /\ pc = "crawl_loop"
    /\ Len(url_queue) > 0
    /\ LET current_url == Head(url_queue) IN
       IF current_url \in visited_urls
       THEN /\ url_queue' = Tail(url_queue)
            /\ UNCHANGED <<visited_urls, content_data, queued_urls, fetched,
                           appended, page_hrefs>>
       ELSE \E got \in {<<>>} \cup { <<h>> : h \in HrefLists } :
              LET r == crawl_page(current_url, got)
                  q == Enqueue([queue |-> Tail(url_queue), queued |-> queued_urls,
                                visited |-> r.visited, appended |-> appended],
                               r.links)
              IN /\ visited_urls' = r.visited
                 /\ content_data' = r.data
                 /\ fetched' = r.fetched
                 /\ page_hrefs' = r.hrefs
                 /\ url_queue' = q.queue
                 /\ queued_urls' = q.queued
                 /\ appended' = q.appended
    /\ UNCHANGED chunkVars
    /\ UNCHANGED <<pc, base_url, page, authenticated, start_urls>>

\* crawl_all: the queue is empty, the loop ends
CrawlAllEnd ==
    /\ pc = "crawl_loop"
    /\ Len(url_queue) = 0
    /\ pc' = "crawl_done"
    /\ UNCHANGED chunkVars
    /\ UNCHANGED crawlVars

NextCrawl == CrawlConstruct \/ CrawlAllBegin \/ CrawlStep \/ CrawlAllEnd

SpecCrawl == InitCrawl /\ [][NextCrawl]_vars

\* crawl_all runs in one thread: an iteration that can be taken is taken
SpecCrawlFair == SpecCrawl /\ WF_vars(NextCrawl)

----------------------------------------------------------------------------
(* Properties of create_chunks (RagProcessor), checked under Spec *)

\* create_chunks has built every candidate chunk
Sized == pc \in {"validate", "done"} /\ Len(chunks) > 0

\* create_chunks has returned
Returned == pc = "done" /\ Len(sections) > 0

\* the groups create_chunks hands to _split_large_group
SplitGroups == { g \in 1..Len(groups) : SumTokens(groups[g]) > cfg.max }

\* C1: no chunk in the list returned by create_chunks holds an odd number of
\* fence delimiters, whatever its size and whether or not it is the only chunk.
C1_NoOddFenceReturned ==
    Returned => \A i \in 1..Len(ret) : CountFence(ret[i].content) % 2 = 0

\* the fenced bodies of a text: the parts at even positions of its split
FencedBodies(t) ==
    LET parts == SplitFence(t) IN { parts[2 * n] : n \in 1..NBlocks(parts) }

\* the running state the n-th fenced block of section k of group meets
BeforeBlock(c, group, k, n) ==
    LET parts == SplitFence(group[k].content) IN
    BlockState(c, CodeStart(c, SplitState(c, group, k - 1), group[k]), group[k],
               parts, n - 1)

\* the n-th fenced block of section k is added in one piece: with the block
\* the buffer either grows by the whole block, nothing being flushed, or,
\* when the block would push the running total past MAX, is flushed (if it
\* has content) and replaced by "# <title> (continued)" and the whole block
BlockAddedWhole(c, group, k, n) ==
    LET section == group[k]
        body == SplitFence(section.content)[2 * n]
        block == FENCE \o body \o FENCE
        before == BeforeBlock(c, group, k, n)
        after == AddCodeBlock(c, before, section, body)
    IN IF before.tokens + estimate_tokens(block) > c.max
       THEN /\ after.content = Hdr(section.title) \o ContinuedSuffix \o NN \o block
            /\ after.chunks = IF Len(Strip(before.content)) > 0
                              THEN Append(before.chunks,
                                          Chunk(Strip(before.content), before.secs,
                                                before.tokens))
                              ELSE before.chunks
            /\ CountFence(before.content) % 2 = 0
       ELSE /\ after.content = before.content \o NN \o block
            /\ after.chunks = before.chunks

\* C2, the part on how a block is added: in every group passed to the
\* splitter each block is added to the buffer in one piece, after a flush and
\* under a "<title> (continued)" header when it would push the total past
\* MAX, and every chunk the splitter emits holds whole blocks of the group
\* only (an even number of delimiters, each fenced body one of a section).
C2_BlocksAddedWhole ==
    pc \in {"size", "validate", "done"} =>
      \A g \in SplitGroups :
        LET group == groups[g]
            out == _split_large_group(cfg, group)
        IN /\ \A k \in 1..Len(group) :
                HasFence(group[k].content) =>
                  \A n \in 1..NBlocks(SplitFence(group[k].content)) :
                     BlockAddedWhole(cfg, group, k, n)
           /\ \A i \in 1..Len(out) :
                /\ CountFence(out[i].content) % 2 = 0
                /\ \A b \in FencedBodies(out[i].content) :
                     \E k \in 1..Len(group) : b \in FencedBodies(group[k].content)

\* C2: for every group passed to the splitter, each fenced block of a section
\* (opening delimiter, body, closing delimiter) lands entirely inside one
\* candidate chunk, no flush happening between its delimiters, and a block
\* that would push the total past MAX opens a "<title> (continued)" chunk
\* after a flush.
C2_FencedBlockInOneChunk ==
    pc \in {"size", "validate", "done"} =>
      \A g \in SplitGroups :
        LET group == groups[g]
            out == _split_large_group(cfg, group)
        IN \A k \in 1..Len(group) :
             HasFence(group[k].content) =>
               \A n \in 1..NBlocks(SplitFence(group[k].content)) :
                  /\ BlockAddedWhole(cfg, group, k, n)
                  /\ \E i \in 1..Len(out) :
                       Contains(out[i].content,
                                FENCE \o SplitFence(group[k].content)[2 * n] \o FENCE)

\* C2 witness: a group was split in which a block met a buffer with content
\* that it pushed past MAX, and a block that fitted
C2_Witness ==
    /\ pc = "done"
    /\ \E g \in SplitGroups :
         LET group == groups[g] IN
         \E k \in 1..Len(group) :
            /\ HasFence(group[k].content)
            /\ \E n \in 1..NBlocks(SplitFence(group[k].content)) :
                 LET before == BeforeBlock(cfg, group, k, n)
                     body == SplitFence(group[k].content)[2 * n]
                 IN /\ before.tokens + estimate_tokens(FENCE \o body \o FENCE) > cfg.max
                    /\ Len(Strip(before.content)) > 0
    /\ \E g \in SplitGroups :
         LET group == groups[g] IN
         \E k \in 1..Len(group) :
            /\ HasFence(group[k].content)
            /\ \E n \in 1..NBlocks(SplitFence(group[k].content)) :
                 LET before == BeforeBlock(cfg, group, k, n)
                     body == SplitFence(group[k].content)[2 * n]
                 IN before.tokens + estimate_tokens(FENCE \o body \o FENCE) <= cfg.max

\* the pieces of a section's content: its parts between fences, stripped
SectionPieces(section) ==
    LET parts == SplitFence(section.content) IN
    { Strip(parts[j]) : j \in 1..Len(parts) } \ { <<>> }

\* C3: the content of every section is found in the text of at least one
\* candidate chunk produced by grouping plus sizing/splitting.
C3_Coverage ==
    Sized =>
      \A k \in 1..Len(sections) :
        \A piece \in SectionPieces(sections[k]) :
          \E i \in 1..Len(chunks) : Contains(chunks[i].content, piece)

\* C4: every returned chunk other than the sole chunk of its document has
\* token_count <= CHUNK_SIZE_MAX.
C4_SizeBound ==
    (Returned /\ Len(chunks) > 1) =>
      \A i \in 1..Len(ret) : ret[i].token_count <= CHUNK_SIZE_MAX

\* C4 witness: a document with several candidates, one of them above MAX,
\* returned at least two chunks
C4_Witness ==
    /\ Returned
    /\ Len(ret) >= 2
    /\ \E i \in 1..Len(chunks) : chunks[i].token_count > CHUNK_SIZE_MAX

\* C5: the k-th returned chunk has chunk_index = k and every returned chunk
\* has total_chunks = N, the number of returned chunks.
C5_Reindexed ==
    Returned =>
      \A k \in 1..Len(ret) :
        /\ ret[k].metadata.chunk_index = k
        /\ ret[k].metadata.total_chunks = Len(ret)

\* C5 witness: a candidate was rejected before one that was accepted, and at
\* least two chunks were returned
C5_Witness ==
    /\ Returned
    /\ Len(ret) >= 2
    /\ \E i, j \in 1..Len(verdicts) : i < j /\ ~verdicts[i][1] /\ verdicts[j][1]

\* the first word of a text (the empty text if it has none)
FirstWord(t) == IF Len(Words(t)) = 0 THEN <<>> ELSE Words(t)[1]

\* chunk opens with the section: with its "# <title>" header (or that header
\* followed by " (continued)") or, under the title 'Content', with the first
\* word of its body
OpensWith(chunk, section) ==
    \/ /\ section.title # ContentTitle
       /\ StartsWith(chunk.content, Hdr(section.title) \o NN)
    \/ /\ section.title = ContentTitle
       /\ StartsWith(chunk.content, FirstWord(SplitFence(section.content)[1]))
    \/ StartsWith(chunk.content, Hdr(section.title) \o ContinuedSuffix \o NN)

\* the words of a text, as a set
WordSet(t) == { Words(t)[i] : i \in 1..Len(Words(t)) }

\* C6: the first candidate chunk produced for any group starts with that
\* group's own first section (header or body) and holds no text carried over
\* from another group: each of its words is a word of the group's own
\* rendering (or of the " (continued)" header).
C6_FirstChunkStartsOwnGroup ==
    pc \in {"size", "validate", "done"} =>
      \A g \in 1..Len(groups) :
        LET out == GroupChunks(cfg, groups[g]) IN
        Len(out) > 0 =>
          /\ OpensWith(out[1], groups[g][1])
          /\ WordSet(out[1].content) \subseteq
               (WordSet(RenderAll(groups[g])) \cup WordSet(ContinuedSuffix)
                  \cup UNION { WordSet(FENCE \o b \o FENCE) :
                                 b \in UNION { FencedBodies(groups[g][k].content) :
                                               k \in 1..Len(groups[g]) } })

C7_WitnessSole ==
    /\ Returned
    /\ Len(chunks) = 1
    /\ chunks[1].token_count < CHUNK_SIZE_MIN
    /\ ~HasFence(chunks[1].content)
    /\ Len(ret) = 1

ClosingTokens == { <<"}">>, <<"]">>, <<")">> }

ContinuationKeywords ==
    { <<"e", "l", "s", "e">>, <<"e", "l", "i", "f">>,
      <<"e", "x", "c", "e", "p", "t">>, <<"f", "i", "n", "a", "l", "l", "y">>,
      <<"c", "a", "t", "c", "h">> }

\* t opens with the keyword kw standing alone
StartsWithBare(t, kw) ==
    /\ StartsWith(t, kw)
    /\ Len(t) > Len(kw) => t[Len(kw) + 1] \in WS \cup {":", "{", "("}

\* the trimmed text opens with a dangling closing token or a bare
\* continuation keyword
OrphanedStart(t) ==
    \/ \E p \in ClosingTokens : StartsWith(Strip(t), p)
    \/ \E kw \in ContinuationKeywords : StartsWithBare(Strip(t), kw)

\* C8: a candidate with MIN <= token_count <= MAX and balanced fences whose
\* trimmed text starts with a closing brace, bracket or parenthesis or with a
\* bare continuation keyword is rejected, and the survivors are numbered
\* 1..N, N being the number of accepted candidates.
C8_OrphanRejected ==
    Returned =>
      /\ \A i \in 1..Len(chunks) :
           ( /\ CHUNK_SIZE_MIN <= chunks[i].token_count
             /\ chunks[i].token_count <= CHUNK_SIZE_MAX
             /\ CountFence(chunks[i].content) % 2 = 0
             /\ OrphanedStart(chunks[i].content) ) => ~verdicts[i][1]
      /\ Len(ret) = Cardinality({ i \in 1..Len(chunks) : verdicts[i][1] })
      /\ \A k \in 1..Len(ret) : ret[k].metadata.chunk_index = k

\* what the caller is told of the rejected candidates: create_chunks returns
\* the accepted chunks only, and prints a rejection when debug is set
ReportedRejected == { console[k][1] : k \in 1..Len(console) }

\* C9: when a candidate has token_count > CHUNK_SIZE_MAX, create_chunks
\* returns the other valid chunks and reports the oversized chunk to the
\* caller (it is not dropped without being reported).
C9_OversizedReported ==
    Returned =>
      \A i \in 1..Len(chunks) :
        chunks[i].token_count > CHUNK_SIZE_MAX =>
          /\ ~verdicts[i][1]
          /\ i \in ReportedRejected

----------------------------------------------------------------------------
(* Properties of GK8RagProcessor, checked under SpecGK8 *)

\* all size constants positive and MIN < TARGET < MAX
ValidConfig(c) ==
    /\ c.min > 0 /\ c.target > 0 /\ c.max > 0 /\ c.overlap > 0
    /\ c.min < c.target /\ c.target < c.max

\* C10: when the size constants violate MIN < TARGET < MAX or one of them is
\* not positive, an error is raised before any section of a document is
\* processed and no chunk list is returned: sections are processed and a
\* list is returned under a valid configuration only.
C10_NoProcessingUnderBadConfig ==
    pc \in {"loop", "done"} => ValidConfig(cfg)

\* create_chunks has grouped the sections
Grouped == pc \in {"size", "validate", "done"} /\ Len(sections) > 0

\* C11: the groups returned by _group_related_sections partition the section
\* sequence: concatenated in order they are exactly the sections, and no group
\* is empty.
C11_GroupsPartition ==
    Grouped =>
        /\ Flatten(groups) = sections
        /\ \A g \in 1..Len(groups) : Len(groups[g]) > 0

\* two sections in one group whose first section is below a major heading
C11_Witness ==
    /\ Grouped
    /\ Len(sections) = 2 /\ Len(groups) = 1
    /\ sections[1].level = 3
    /\ sections[1] # sections[2]

\* two sections in two groups
C11_WitnessTwoGroups ==
    Grouped /\ Len(sections) = 2 /\ Len(groups) = 2 /\ sections[1] # sections[2]

\* C12: the token_count recorded for every candidate chunk the sizer or the
\* splitter emits, and the running total of the splitter's buffer after every
\* section, is estimate_tokens of the text it is recorded for (headers,
\* blank-line separators and overlap text included).
C12_TokenCountExact ==
    /\ \A i \in 1..Len(chunks) :
         chunks[i].token_count = estimate_tokens(chunks[i].content)
    /\ Grouped =>
         \A g \in SplitGroups :
           \A k \in 0..Len(groups[g]) :
             LET st == SplitState(cfg, groups[g], k) IN
             st.tokens = estimate_tokens(st.content)

\* the metadata of returned chunk k as the caller reads it: every list entry
\* replaced by the items of its list object
ChunkMetadataValue(k) ==
    [ret[k].metadata EXCEPT !.related_links = heap[@]]

\* the caller's metadata as the caller reads it
CallerMetadataValue ==
    [keys |-> DOMAIN metadata, page_url |-> metadata.page_url,
     related_links |-> heap[metadata.related_links]]

\* C13: every returned chunk has its own copy of the caller's metadata: a
\* write by the caller to one chunk's metadata (an assignment, or an in-place
\* change of its related_links or section_titles list) changes the metadata
\* of no other chunk and not the caller's metadata object, and the caller's
\* metadata object has no chunk_index, total_chunks or section_titles key
\* after create_chunks.
C13_MetadataIsolation ==
    [][ (pc = "done" /\ pc' = "done" /\ Len(ret) > 0) =>
          /\ CallerMetadataValue' = CallerMetadataValue
          /\ Cardinality({ k \in 1..Len(ret) :
                             ChunkMetadataValue(k)' # ChunkMetadataValue(k) }) <= 1
          /\ DOMAIN metadata' \cap {"chunk_index", "total_chunks", "section_titles"}
               = {} ]_vars

\* group g is one section whose content holds one fenced block, and the
\* block alone is estimated above MAX
OneOversizedBlock(g) ==
    /\ Len(groups[g]) = 1
    /\ CountFence(groups[g][1].content) = 2
    /\ estimate_tokens(FENCE \o SplitFence(groups[g][1].content)[2] \o FENCE) > cfg.max

\* C14: a group made of a single section whose one fenced block is estimated
\* above MAX yields a candidate chunk that holds the whole block, from its
\* opening to its closing delimiter, and that chunk is above MAX.
C14_OversizedBlockKeptWhole ==
    \* the state in which the last group has just been sized; groups and
    \* chunks do not change afterwards
    Sized /\ pc = "validate" /\ vi = 1 =>
      \A g \in 1..Len(groups) :
        OneOversizedBlock(g) =>
          LET block == FENCE \o SplitFence(groups[g][1].content)[2] \o FENCE
              out == GroupChunks(cfg, groups[g])
          IN /\ \E i \in 1..Len(out) :
                  /\ Contains(out[i].content, block)
                  /\ CountFence(out[i].content) = 2
                  /\ out[i].token_count > cfg.max
             /\ \E i \in 1..Len(chunks) :
                  /\ Contains(chunks[i].content, block)
                  /\ CountFence(chunks[i].content) = 2
                  /\ chunks[i].token_count > cfg.max
                  /\ chunks[i].sections = <<groups[g][1].title>>

\* a document of one section with text before its one oversized block
C14_Witness ==
    /\ Sized
    /\ Len(sections) = 1
    /\ OneOversizedBlock(1)
    /\ Len(Strip(SplitFence(sections[1].content)[1])) > 0
    /\ Len(chunks) = 2

\* the candidate chunks among the first n that _validate_chunk accepts, in
\* candidate order
RECURSIVE AcceptedCandidates(_)
AcceptedCandidates(n) ==
    IF n = 0 THEN <<>>
    ELSE IF _validate_chunk(cfg, Strip(chunks[n].content), chunks[n].token_count,
                            Len(chunks))[1]
         THEN Append(AcceptedCandidates(n - 1), chunks[n])
         ELSE AcceptedCandidates(n - 1)

\* C15: the list create_chunks returns is exactly the subsequence of the
\* candidate chunks that _validate_chunk accepts, in candidate order, each
\* with its text, section list and token_count unchanged: a rejection removes
\* the rejected candidate only, and no rejected candidate comes back.
C15_RejectionsLocal ==
    [][ (pc = "validate" /\ pc' = "done") =>
          LET acc == AcceptedCandidates(Len(chunks)) IN
          /\ Len(ret') = Len(acc)
          /\ \A k \in 1..Len(acc) :
               /\ ret'[k].content = acc[k].content
               /\ ret'[k].sections = acc[k].sections
               /\ ret'[k].token_count = acc[k].token_count ]_vars

\* create_chunks returned two chunks with different texts, the second and
\* third of three candidates, the first having been rejected
C15_Witness ==
    /\ Returned
    /\ written = FALSE
    /\ Len(chunks) = 3 /\ Len(ret) = 2
    /\ ~verdicts[1][1]
    /\ ret[1].content # ret[2].content

\* the number of sections in the first g groups
RECURSIVE SectionsUpTo(_)
SectionsUpTo(g) == IF g = 0 THEN 0 ELSE Len(groups[g]) + SectionsUpTo(g - 1)

\* the positions, in the section sequence, of the first section of each group
GroupStarts == { SectionsUpTo(g - 1) + 1 : g \in 1..Len(groups) }

\* C16: a section after the first starts a new group if and only if its
\* level is at most 2 or exactly one of it and its predecessor holds a fence
\* marker; otherwise it joins the group of its predecessor.  A section of
\* level at most 2 starts a group whatever its predecessor is.
C16_BoundaryRule ==
    Grouped =>
      /\ Flatten(groups) = sections
      /\ \A i \in 2..Len(sections) :
           /\ (i \in GroupStarts) <=>
                \/ sections[i].level <= 2
                \/ HasFence(sections[i - 1].content) # HasFence(sections[i].content)
           /\ sections[i].level <= 2 => i \in GroupStarts

\* a section below level 2 starts a group because only its predecessor holds
\* a fence
C16_Witness ==
    /\ Grouped
    /\ Len(sections) = 2
    /\ sections[2].level = 3
    /\ HasFence(sections[1].content) /\ ~HasFence(sections[2].content)
    /\ Len(groups) = 2

\* a section below level 2 joins its predecessor's group, both holding a fence
C16_WitnessJoin ==
    /\ Grouped
    /\ Len(sections) = 2
    /\ sections[2].level = 3
    /\ HasFence(sections[1].content) /\ HasFence(sections[2].content)
    /\ Len(groups) = 1

\* s is a run of consecutive elements of t
IsRunOf(s, t) ==
    \E a \in 0..(Len(t) - Len(s)) : SubSeq(t, a + 1, a + Len(s)) = s

\* the atoms of a text
AtomSet(t) == { t[i] : i \in 1..Len(t) }

\* the atoms a chunk made from a group may hold: those of the group's
\* sections and of the headers built from their titles
GroupAtoms(group) ==
    AtomSet(RenderAll(group))
    \cup UNION { AtomSet(Hdr(group[k].title) \o ContinuedSuffix) : k \in 1..Len(group) }

\* C17: the step of create_chunks that sizes a group whose total estimate is
\* at most MAX appends exactly one candidate chunk, which holds all the
\* sections of the group in order with their titles, also when the total is
\* below MIN; and the chunks appended for any group hold sections and text of
\* that group only.
C17_OneChunkPerFittingGroup ==
    [][ (pc = "size" /\ gi' = gi + 1) =>
          LET group == groups[gi]
              new == SubSeq(chunks', Len(chunks) + 1, Len(chunks'))
          IN /\ SubSeq(chunks', 1, Len(chunks)) = chunks
             /\ SumTokens(group) <= cfg.max =>
                  /\ Len(new) = 1
                  /\ new[1].sections = Titles(group)
                  /\ new[1].content = Strip(RenderAll(group))
             /\ \A i \in 1..Len(new) :
                  /\ IsRunOf(new[i].sections, Titles(group))
                  /\ AtomSet(new[i].content) \subseteq GroupAtoms(group)
        ]_vars

\* two groups were sized, the first below MIN, and each gave one candidate
\* chunk
C17_Witness ==
    /\ Sized
    /\ Len(groups) = 2 /\ Len(chunks) = 2
    /\ SumTokens(groups[1]) < cfg.min
    /\ chunks[1].content # chunks[2].content
    /\ chunks[1].token_count < cfg.min

\* C18: whenever the splitter flushes the running buffer because of a size
\* limit and opens a new buffer inside the same group, the new buffer's text
\* begins with the overlap slice of the flushed buffer's text: at the
\* TARGET-driven flush before a plain-text section and at the MAX-driven
\* flush before a fenced block.
C18_OverlapOnEveryFlush ==
    Grouped =>
      \A g \in SplitGroups :
        LET group == groups[g] IN
        \A k \in 1..Len(group) :
          LET st == SplitState(cfg, group, k - 1) IN
          IF HasFence(group[k].content)
          THEN \A n \in 1..NBlocks(SplitFence(group[k].content)) :
                 LET before == BeforeBlock(cfg, group, k, n)
                     body == SplitFence(group[k].content)[2 * n]
                     after == AddCodeBlock(cfg, before, group[k], body)
                 IN (Len(after.chunks) > Len(before.chunks)) =>
                       StartsWith(after.content,
                                  _get_overlap_content(cfg, before.content))
          ELSE LET after == SplitTextSection(cfg, st, group[k]) IN
               (Len(after.chunks) > Len(st.chunks)) =>
                  StartsWith(after.content, _get_overlap_content(cfg, st.content))

\* C18, the TARGET-driven flush alone: the buffer opened before a plain-text
\* section begins with the overlap slice of the flushed buffer
C18_OverlapOnTextFlush ==
    Grouped =>
      \A g \in SplitGroups :
        LET group == groups[g] IN
        \A k \in 1..Len(group) :
          LET st == SplitState(cfg, group, k - 1)
              after == SplitTextSection(cfg, st, group[k])
          IN (~HasFence(group[k].content) /\ Len(after.chunks) > Len(st.chunks)) =>
                StartsWith(after.content, _get_overlap_content(cfg, st.content))

\* a TARGET-driven flush happened
C18_WitnessTextFlush ==
    /\ Grouped
    /\ \E g \in SplitGroups :
         \E k \in 1..Len(groups[g]) :
           /\ ~HasFence(groups[g][k].content)
           /\ Len(SplitTextSection(cfg, SplitState(cfg, groups[g], k - 1),
                                   groups[g][k]).chunks)
                > Len(SplitState(cfg, groups[g], k - 1).chunks)

----------------------------------------------------------------------------
(* Properties of _get_overlap_content, checked under SpecOverlap *)

\* round(n * 0.8); n * 0.8 is never halfway between two integers
RoundedOverlapWords(n) == (8 * n + 5) \div 10

C19_OverlapLengthAsConfigured ==
    (pc = "overlapped" /\ cfg.overlap \in {CHUNK_OVERLAP, GK8_CHUNK_OVERLAP}) =>
      LET words == Words(cur.content)
          n == RoundedOverlapWords(cfg.overlap)
      IN ret[1] = IF Len(words) > n
                  THEN JoinSpace(SubSeq(words, Len(words) - n + 1, Len(words)))
                  ELSE cur.content

----------------------------------------------------------------------------
(* Properties of the splitter's flush before a code section, under Spec *)

\* C20: when the splitter reaches a section holding a fenced block and the
\* running buffer has content, the buffer is emitted as a chunk, whatever its
\* size, before the fresh buffer is seeded with the section's header and the
\* text before the first fence: no buffer content is overwritten unemitted.
C20_FlushBeforeCodeSection ==
    Grouped =>
      \A g \in SplitGroups :
        LET group == groups[g] IN
        \A k \in 1..Len(group) :
          HasFence(group[k].content) =>
            LET st == SplitState(cfg, group, k - 1)
                start == CodeStart(cfg, st, group[k])
                text_before == SplitFence(group[k].content)[1]
            IN /\ Len(Strip(st.content)) > 0 => start.chunks = Emit(st)
               /\ Len(Strip(st.content)) = 0 => start.chunks = st.chunks
               /\ start.secs = <<group[k].title>>
               /\ start.content = IF group[k].title # ContentTitle
                                  THEN Hdr(group[k].title) \o NN \o text_before
                                  ELSE text_before

\* C20 for a buffer that holds at least MIN tokens
C20_FlushBeforeCodeSectionAtLeastMin ==
    Grouped =>
      \A g \in SplitGroups :
        LET group == groups[g] IN
        \A k \in 1..Len(group) :
          HasFence(group[k].content) =>
            LET st == SplitState(cfg, group, k - 1)
                start == CodeStart(cfg, st, group[k])
            IN (Len(Strip(st.content)) > 0 /\ st.tokens >= cfg.min) =>
                  start.chunks = Emit(st)

----------------------------------------------------------------------------
(* Properties of the splitter's handling of text and paragraphs, under Spec *)

\* C21: the text that follows a fenced block is appended to the running
\* buffer when the running total plus its estimate is at most MAX; when it
\* does not fit it still appears in a candidate chunk of the same group: it
\* is never discarded.
C21_TextAfterBlockKept ==
    Grouped =>
      \A g \in SplitGroups :
        LET group == groups[g]
            out == _split_large_group(cfg, group)
        IN \A k \in 1..Len(group) :
             HasFence(group[k].content) =>
               LET parts == SplitFence(group[k].content) IN
               \A n \in 1..NBlocks(parts) :
                 2 * n + 1 <= Len(parts) =>
                   LET text_after == parts[2 * n + 1]
                       st1 == AddCodeBlock(cfg, BeforeBlock(cfg, group, k, n),
                                           group[k], parts[2 * n])
                       st2 == AddTextAfter(cfg, st1, text_after)
                   IN /\ st1.tokens + estimate_tokens(text_after) <= cfg.max =>
                           st2.content = st1.content \o NN \o text_after
                      /\ Len(Strip(text_after)) > 0 =>
                           \E i \in 1..Len(out) :
                              Contains(out[i].content, Strip(text_after))

\* C21, the fitting case alone: text after a block that fits under MAX is
\* appended to the running buffer
C21_FittingTextAppended ==
    Grouped =>
      \A g \in SplitGroups :
        LET group == groups[g] IN
        \A k \in 1..Len(group) :
          HasFence(group[k].content) =>
            LET parts == SplitFence(group[k].content) IN
            \A n \in 1..NBlocks(parts) :
              2 * n + 1 <= Len(parts) =>
                LET text_after == parts[2 * n + 1]
                    st1 == AddCodeBlock(cfg, BeforeBlock(cfg, group, k, n),
                                        group[k], parts[2 * n])
                IN st1.tokens + estimate_tokens(text_after) <= cfg.max =>
                     AddTextAfter(cfg, st1, text_after).content
                        = st1.content \o NN \o text_after

\* the running total plus the estimate of section k of the group passes
\* TARGET
PastTarget(group, k) ==
    SplitState(cfg, group, k - 1).tokens + estimate_tokens(group[k].content)
        > cfg.target

\* C22: for a section without a fenced block in a group passed to the
\* splitter, the running buffer is flushed and a new one started (overlap,
\* then the section) exactly when running total + section estimate > TARGET
\* and running total >= MIN; otherwise the section is appended to the buffer
\* and nothing is emitted; at the end of the group a non-empty buffer is
\* emitted.
C22_PlainTextFlushRule ==
    \* the group create_chunks is about to size, if it goes to the splitter
    pc = "size" =>
      \A g \in SplitGroups \cap {gi} :
        LET group == groups[g]
            last == SplitState(cfg, group, Len(group))
        IN /\ \A k \in 1..Len(group) :
                ~HasFence(group[k].content) =>
                  LET st == SplitState(cfg, group, k - 1)
                      after == SplitState(cfg, group, k)
                  IN IF PastTarget(group, k) /\ st.tokens >= cfg.min
                     THEN /\ after.chunks
                               = Append(st.chunks,
                                        Chunk(Strip(st.content), st.secs, st.tokens))
                          /\ after.content
                               = _get_overlap_content(cfg, st.content)
                                    \o Rendered(group[k])
                          /\ after.secs = <<group[k].title>>
                     ELSE /\ after.chunks = st.chunks
                          /\ after.content = st.content \o Rendered(group[k])
                          /\ after.secs = Append(st.secs, group[k].title)
           /\ _split_large_group(cfg, group)
                = IF Len(Strip(last.content)) > 0
                  THEN Append(last.chunks,
                              Chunk(Strip(last.content), last.secs, last.tokens))
                  ELSE last.chunks

\* a group of plain-text sections was split: one section passed TARGET over a
\* buffer below MIN and was appended, a later one flushed the buffer
C22_Witness ==
    /\ Sized
    /\ \E g \in SplitGroups :
         LET group == groups[g] IN
         /\ \E k \in 1..Len(group) :
              /\ ~HasFence(group[k].content)
              /\ PastTarget(group, k)
              /\ SplitState(cfg, group, k - 1).tokens < cfg.min
         /\ \E k \in 1..Len(group) :
              /\ ~HasFence(group[k].content)
              /\ PastTarget(group, k)
              /\ SplitState(cfg, group, k - 1).tokens >= cfg.min

\* the non-empty paragraphs of a text, in order: text.split('\n\n'), stripped
Paragraphs(t) ==
    SelectSeq([i \in 1..Len(SplitNN(t)) |-> Strip(SplitNN(t)[i])],
              LAMBDA p : Len(p) > 0)

\* the chunks of out that hold paragraph p
HoldersOf(out, p) == { i \in 1..Len(out) : Contains(out[i].content, p) }

\* group g is one section without a fence whose estimate is above MAX
OneOversizedTextSection(g) ==
    /\ Len(groups[g]) = 1
    /\ ~HasFence(groups[g][1].content)
    /\ estimate_tokens(groups[g][1].content) > cfg.max

\* C23: a group of exactly one fence-free section whose estimate is above MAX
\* is split at blank-line paragraph boundaries: it gives more than one
\* candidate chunk when it has more than one paragraph, every paragraph lands
\* whole in exactly one chunk, and the paragraphs keep their order across the
\* chunks.
C23_ParagraphFallback ==
    Grouped =>
      \A g \in 1..Len(groups) :
        OneOversizedTextSection(g) =>
          LET paras == Paragraphs(groups[g][1].content)
              out == GroupChunks(cfg, groups[g])
          IN /\ Len(paras) > 1 => Len(out) > 1
             /\ \A j \in 1..Len(paras) : Cardinality(HoldersOf(out, paras[j])) = 1
             /\ \A j \in 1..Len(paras) : \A l \in j..Len(paras) :
                  \A a \in HoldersOf(out, paras[j]) :
                    \A b \in HoldersOf(out, paras[l]) : a <= b

\* group g holds no fenced block and each of its sections is estimated at
\* most TARGET
PlainSmallSections(g) ==
    \A k \in 1..Len(groups[g]) :
       /\ ~HasFence(groups[g][k].content)
       /\ estimate_tokens(groups[g][k].content) <= cfg.target

\* C24: for every group passed to the splitter that holds no fenced block
\* and whose sections are each estimated at most TARGET, every candidate
\* chunk _split_large_group emits has token_count at most CHUNK_SIZE_MAX.
C24_PlainTextCeiling ==
    Grouped =>
      \A g \in SplitGroups :
        PlainSmallSections(g) =>
          \A i \in 1..Len(_split_large_group(cfg, groups[g])) :
             _split_large_group(cfg, groups[g])[i].token_count <= cfg.max

----------------------------------------------------------------------------
(* Properties of extract_sections, under Spec *)

\* the sections the headings at positions >= i are to give: the body of a
\* heading is the text of the siblings after it, up to the next heading of
\* its level or above, and a heading with an empty body gives no section
RECURSIVE BodySectionsFrom(_, _)
BodySectionsFrom(nodes, i) ==
    IF i > Len(nodes) THEN <<>>
    ELSE IF nodes[i].kind # "h" THEN BodySectionsFrom(nodes, i + 1)
    ELSE LET body == GetText(nodes, i + 1, ContentEnd(nodes, i, nodes[i].level)) IN
         (IF Len(body) > 0
          THEN <<[level |-> nodes[i].level, title |-> Strip(nodes[i].text),
                  content |-> body]>>
          ELSE <<>>) \o BodySectionsFrom(nodes, i + 1)

\* C25: extract_sections emits the sections in heading order; the body of a
\* heading's section is the text of exactly the siblings that follow it up to
\* the next heading of level <= its own, without the heading's own text; a
\* heading whose body is empty gives no section; a document without a
\* heading (and with some text) gives exactly one section, of level 0 and
\* title "Content".
C25_SectionExtraction ==
    (Len(soup) > 0 /\ Len(GetText(soup, 1, Len(soup))) > 0) =>
      IF \A i \in 1..Len(soup) : soup[i].kind # "h"
      THEN /\ Len(sections) = 1
           /\ sections[1].level = 0
           /\ sections[1].title = ContentTitle
           /\ sections[1].content = GetText(soup, 1, Len(soup))
      ELSE sections = BodySectionsFrom(soup, 1)

\* C25 with the heading's own text counted as the first piece of the body,
\* for documents that hold some text
C25_SectionExtractionWithHeadingText ==
    (Len(soup) > 0 /\ Len(GetText(soup, 1, Len(soup))) > 0) =>
      IF \A i \in 1..Len(soup) : soup[i].kind # "h"
      THEN /\ Len(sections) = 1
           /\ sections[1].level = 0
           /\ sections[1].title = ContentTitle
           /\ sections[1].content = GetText(soup, 1, Len(soup))
      ELSE /\ Len(sections) = Cardinality({ i \in 1..Len(soup) : soup[i].kind = "h" })
           /\ \A k \in 1..Len(sections) :
                \E i \in 1..Len(soup) :
                   /\ soup[i].kind = "h"
                   /\ Cardinality({ j \in 1..i : soup[j].kind = "h" }) = k
                   /\ sections[k].level = soup[i].level
                   /\ sections[k].content
                        = GetText(soup, i, ContentEnd(soup, i, soup[i].level))

----------------------------------------------------------------------------
(* Implicit properties of the grouper and the validator, under Spec *)

\* C26: in every group returned by _group_related_sections all sections
\* agree on whether their content holds a fence marker, and every section
\* other than the first has level >= 3; so within one _split_large_group call
\* every section takes the same path.
C26_GroupHomogeneity ==
    Grouped =>
      \A g \in 1..Len(groups) :
        \A k \in 2..Len(groups[g]) :
          /\ groups[g][k].level >= 3
          /\ HasFence(groups[g][k].content) = HasFence(groups[g][1].content)

\* a group of two fenced sections was handed to the splitter
C26_Witness ==
    /\ Sized
    /\ \E g \in SplitGroups :
         /\ Len(groups[g]) = 2
         /\ HasFence(groups[g][1].content)
         /\ HasFence(groups[g][2].content)
         /\ groups[g][1].content # groups[g][2].content

\* the text of candidate i fails the fence-balance or the orphaned-start test
FailsContentChecks(i) ==
    \/ CountFence(chunks[i].content) % 2 # 0
    \/ \E k \in 1..Len(orphaned_starts) :
          StartsWith(Strip(chunks[i].content), orphaned_starts[k])

\* C27: _validate_chunk decides an undersized chunk on rule 1 alone: a chunk
\* below MIN that is the only candidate or holds a fence marker is accepted
\* whatever the fence-balance and orphaned-start tests would say, so those
\* two tests only ever reject chunks with MIN <= token_count <= MAX.
C27_ValidatorShortCircuit ==
    \A i \in 1..Len(verdicts) :
       /\ (chunks[i].token_count < cfg.min
             /\ (Len(chunks) = 1 \/ HasFence(chunks[i].content)))
            => verdicts[i][1]
       /\ verdicts[i][2] \in {"incomplete code block", "orphaned code"}
            => /\ ~verdicts[i][1]
               /\ cfg.min <= chunks[i].token_count
               /\ chunks[i].token_count <= cfg.max

\* an undersized chunk that fails the content checks was accepted
C27_Witness ==
    /\ pc = "done"
    /\ \E i \in 1..Len(verdicts) :
         /\ chunks[i].token_count < cfg.min
         /\ FailsContentChecks(i)
         /\ verdicts[i][1]

----------------------------------------------------------------------------
(* Properties of crawl_all and crawl_page, checked under SpecCrawl and     *)
(* SpecCrawlFair                                                           *)

NoDuplicates(sq) == \A i, j \in 1..Len(sq) : sq[i] = sq[j] => i = j

NormalizedSeeds == { normalize_url(start_urls[i]) : i \in 1..Len(start_urls) }

\* one fetch: the URL was never visited before, it is visited afterwards, and
\* content_data gains at most one entry, which is for this URL
FetchOfUnvisited ==
    fetched' # fetched =>
        /\ Len(fetched') = Len(fetched) + 1
        /\ SubSeq(fetched', 1, Len(fetched)) = fetched
        /\ LET u == fetched'[Len(fetched')] IN
             /\ u = normalize_url(u)
             /\ u \notin visited_urls
             /\ u \in visited_urls'
             /\ \/ content_data' = content_data
                \/ /\ Len(content_data') = Len(content_data) + 1
                   /\ SubSeq(content_data', 1, Len(content_data)) = content_data
                   /\ content_data'[Len(content_data')].url = u

\* C28: over a run of crawl_all each normalized URL is handed to the fetcher
\* at most once; visited_urls only grows; a URL is in visited_urls when its
\* fetch is attempted and stays there when the fetch fails, it is not fetched
\* again, and a failed fetch adds nothing to content_data, so no two entries
\* of content_data have the same url.
C28_CrawlAtMostOnce ==
    /\ [](/\ NoDuplicates(fetched)
          /\ \A i \in 1..Len(fetched) : fetched[i] \in visited_urls
          /\ NoDuplicates([i \in 1..Len(content_data) |-> content_data[i].url])
          /\ \A i \in 1..Len(content_data) :
                \E j \in 1..Len(fetched) : fetched[j] = content_data[i].url)
    /\ [][/\ visited_urls \subseteq visited_urls'
          /\ FetchOfUnvisited
          /\ (fetched' = fetched => content_data' = content_data)]_vars

\* a finished crawl in which one fetch failed, two succeeded, and a fetched
\* page linked back to a page visited before it
C28_Witness ==
    /\ pc = "crawl_done"
    /\ Len(fetched) = 3
    /\ Len(content_data) = 2
    /\ \E i \in 1..Len(page_hrefs) : \E k \in 1..Len(page_hrefs[i].hrefs) :
          \E j \in 1..Len(fetched) :
             /\ fetched[j] = normalize_url(page_hrefs[i].hrefs[k])
             /\ fetched[j] # page_hrefs[i].url
             /\ \E m \in (j+1)..Len(fetched) : fetched[m] = page_hrefs[i].url

\* a link the crawler follows from a page of the site: on the base host and
\* neither excluded nor of another API version
InScope(url) ==
    /\ normalize_url(url).host = base_url
    /\ should_crawl_url({}, base_url, url)

\* the in-scope links of the successfully fetched pages whose URL is in S
LinksFrom(S) ==
    UNION { { normalize_url(page_hrefs[i].hrefs[k]) :
                k \in { n \in 1..Len(page_hrefs[i].hrefs) :
                          InScope(page_hrefs[i].hrefs[n]) } } :
            i \in { m \in 1..Len(page_hrefs) : page_hrefs[m].url \in S } }

RECURSIVE ReachableFrom(_)
ReachableFrom(S) ==
    LET next == S \cup LinksFrom(S) IN
    IF next = S THEN S ELSE ReachableFrom(next)

\* C29: the loop of crawl_all terminates with an empty queue, whatever the
\* seeds (duplicates included) and the links of the pages (cycles included);
\* after seeding each URL is appended to the queue at most once, and never a
\* seed; at the end every URL reachable from a seed through in-scope links
\* of successfully fetched pages is in visited_urls.
C29_CrawlTerminates ==
    /\ <>(pc = "crawl_done" /\ url_queue = <<>>)
    /\ [](/\ NoDuplicates(appended)
          /\ \A i \in 1..Len(appended) : appended[i] \notin NormalizedSeeds)
    /\ [](pc = "crawl_done" => ReachableFrom(NormalizedSeeds) \subseteq visited_urls)

\* a finished crawl from a duplicated seed in which three pages were fetched,
\* two URLs were appended, and the last fetched page links back to the seed
C29_Witness ==
    /\ pc = "crawl_done"
    /\ Len(start_urls) = 2
    /\ normalize_url(start_urls[1]) = normalize_url(start_urls[2])
    /\ Len(content_data) = 3
    /\ Len(appended) = 2
    /\ ReachableFrom(NormalizedSeeds) = visited_urls
    /\ \E k \in 1..Len(page_hrefs[3].hrefs) :
          normalize_url(page_hrefs[3].hrefs[k]) \in NormalizedSeeds

\* C30: no page is fetched and no content_data entry is created unless the
\* browser page exists and _authenticate has succeeded; when the browser did
\* not start or the authentication failed, crawl_all still terminates, every
\* seed URL is in visited_urls and content_data is empty.
C30_AuthBeforeFetch ==
    /\ [](Len(fetched) > 0 \/ Len(content_data) > 0 => page /\ authenticated)
    /\ [][fetched' # fetched \/ content_data' # content_data
             => page /\ authenticated /\ pc = "crawl_loop"]_vars
    /\ [][authenticated' # authenticated
             => page /\ ~authenticated /\ authenticated' /\ pc = "crawl_ready"]_vars
    /\ (pc = "crawl_loop" /\ ~(page /\ authenticated) ~> pc = "crawl_done")
    /\ [](pc = "crawl_done" /\ ~(page /\ authenticated)
             => /\ NormalizedSeeds \subseteq visited_urls
                /\ content_data = <<>>
                /\ fetched = <<>>)

\* a finished crawl of two distinct seeds with a browser whose authentication
\* failed
C30_Witness ==
    /\ pc = "crawl_done"
    /\ page
    /\ ~authenticated
    /\ Len(start_urls) = 2
    /\ visited_urls = NormalizedSeeds
    /\ \E u, v \in visited_urls : u # v
    /\ content_data = <<>>

\* a finished crawl without a browser
C30_WitnessNoBrowser ==
    /\ pc = "crawl_done"
    /\ ~page
    /\ visited_urls # {}
    /\ visited_urls = NormalizedSeeds
    /\ content_data = <<>>

====
